---- MODULE Spec2Model ----
(***************************************************************************)
(* Verification model of codi_CLactual.py: the UEFA Champions League       *)
(* calendar optimiser (llegir_dades_excel, crear_matriu_distancies,        *)
(* optimitzar_lliga_champions, convertir_variables_a_matriu,               *)
(* mostrar_rivals_taula, main) and the name normaliser normalize_name of   *)
(* the travel-distance script.                                             *)
(*                                                                         *)
(* The source fixes TOTAL_PARTITS = 8 and the pot list [1, 2, 3, 4]; a     *)
(* schedule for that size needs at least twelve teams, i.e. 144 binary     *)
(* variables.  The model keeps both as configuration (TOTAL_PARTITS and    *)
(* pots are variables fixed by Init) so that the same constraint builder   *)
(* can be enumerated exhaustively at smaller scales (2 matches / 1 pot,    *)
(* 4 matches / 2 pots) as well as with the source's own 8 / 4.             *)
(*                                                                         *)
(* Team indices are 1..N here (0..N-1 in the source).                      *)
(***************************************************************************)
EXTENDS Integers, Sequences, FiniteSets, TLC

(* ---- bounds of the model ---------------------------------------------- *)
MaxTeams     == 4   \* generated spreadsheets have 1..MaxTeams rows
MaxPots      == 2   \* scaled configurations use 1..MaxPots pots
MaxHalf      == 3   \* SpecCfg: TOTAL_PARTITS ranges over 2, 4, .., 2*MaxHalf
MaxLen       == 3   \* SpecNorm: input strings have at most MaxLen characters

(* ---- program constants ------------------------------------------------- *)
MAX_RIVAL_MATEIX_PAIS == 2
PARTITS_PER_POT       == 1
MICRO                 == 1000000

VARIABLES
    pc,             \* position of main()
    fitxer,         \* rows of 'DADES CHAMPIONS.xlsx' (Pais, Pot, Latitud, Longitud)
    equips,         \* registry returned by llegir_dades_excel
    dists,          \* matrix returned by crear_matriu_distancies
    TOTAL_PARTITS,  \* matches per team (8 in the source)
    pots,           \* the pots the builder iterates over ({1,2,3,4} in the source)
    status,         \* model.status after model.solve
    x,              \* values of the decision variables x[(i,j)] after the solve
    matriu,         \* matrix returned by convertir_variables_a_matriu
    out,            \* what has been printed
    crides,         \* number of calls of model.solve
    npc,            \* position of the normalisation driver
    s,              \* raw team name given to normalize_name
    norm1,          \* normalize_name(s)
    norm2           \* normalize_name(normalize_name(s))

calVars  == <<pc, fitxer, equips, dists, TOTAL_PARTITS, pots, status, x, matriu, out, crides>>
normVars == <<npc, s, norm1, norm2>>
vars     == <<pc, fitxer, equips, dists, TOTAL_PARTITS, pots, status, x, matriu, out, crides,
              npc, s, norm1, norm2>>

(***************************************************************************)
(* llegir_dades_excel                                                      *)
(***************************************************************************)
paisos_map ==
    <<"ESP", "GER", "ENG", "FRA", "ITA", "POR", "BEL", "NED",
      "GRE", "CZE", "NOR", "DEN", "TUR", "AZE", "CYP", "KAZ">>

\* The registry built row by row: coordinates divided by 1,000,000, the
\* country number looked up in paisos_map, the pot copied.
LlegirDades(df) ==
    [idx \in 1..Len(df) |->
        [lat  |-> df[idx].Latitud \div MICRO,
         lon  |-> df[idx].Longitud \div MICRO,
         pais |-> paisos_map[df[idx].Pais],
         pot  |-> df[idx].Pot]]

(***************************************************************************)
(* calcular_distancia_haversine / crear_matriu_distancies                  *)
(***************************************************************************)
Abs(n) == IF n < 0 THEN -n ELSE n

\* Haversine distance with R = 6371.0, in whole kilometres, for the venues
\* the model places teams at: latitudes 0 and 10, longitudes 0, 10, .., 50.
\* The entries are the values the source's formula gives, rounded.
EqEq   == <<0, 1112, 2224, 3336, 4448, 5560>>   \* both latitudes 0
TenTen == <<0, 1095, 2190, 3284, 4377, 5470>>   \* both latitudes 10
EqTen  == <<1112, 1569, 2476, 3500, 4562, 5641>> \* latitudes 0 and 10

calcular_distancia_haversine(lat1, lon1, lat2, lon2) ==
    LET d == (Abs(lon2 - lon1) \div 10) + 1
    IN  IF lat1 = 0 /\ lat2 = 0 THEN EqEq[d]
        ELSE IF lat1 = 10 /\ lat2 = 10 THEN TenTen[d]
        ELSE EqTen[d]

crear_matriu_distancies(eq) ==
    [i \in 1..Len(eq) |-> [j \in 1..Len(eq) |->
        IF i # j
        THEN calcular_distancia_haversine(eq[i].lat, eq[i].lon, eq[j].lat, eq[j].lon)
        ELSE 0]]

(***************************************************************************)
(* optimitzar_lliga_champions: the model                                   *)
(*                                                                         *)
(* A constraint is a record [cells, sense, rhs]: the sum of the variables  *)
(* x[(i,j)] over cells (every coefficient in the source is 1), compared    *)
(* with rhs.  An assignment is a function from cells <<i, j>> to {0, 1};   *)
(* x[<<i, j>>] = 1 means team i visits team j.                             *)
(***************************************************************************)
Cells(N) == (1..N) \X (1..N)

\* (every team appended to every pot)
equips_per_pot_tots(eq, p) == 1..Len(eq)

equips_per_pot(eq, p)  == {i \in 1..Len(eq) : eq[i].pot = p}
equips_per_pais(eq, c) == {i \in 1..Len(eq) : eq[i].pais = c}
Paisos(eq)             == {eq[i].pais : i \in 1..Len(eq)}

\* lpSum over a set of variables, on the part of the assignment decided so far
lpSum(cells, a) == Cardinality({c \in cells \cap DOMAIN a : a[c] = 1})

\* 1. every team plays TOTAL_PARTITS // 2 away and TOTAL_PARTITS // 2 at home
Restriccio1Ge(N, T) ==
    {[cells |-> {<<i, j>> : j \in 1..N}, sense |-> ">=", rhs |-> T \div 2] : i \in 1..N}
    \cup {[cells |-> {<<j, i>> : j \in 1..N}, sense |-> ">=", rhs |-> T \div 2] : i \in 1..N}

Restriccio1NoSelf(N, T) ==
    {[cells |-> {<<i, j>> : j \in (1..N) \ {i}}, sense |-> "==", rhs |-> T \div 2] : i \in 1..N}
    \cup {[cells |-> {<<j, i>> : j \in (1..N) \ {i}}, sense |-> "==", rhs |-> T \div 2] : i \in 1..N}

Restriccio1(N, T) ==
    {[cells |-> {<<i, j>> : j \in 1..N}, sense |-> "==", rhs |-> T \div 2] : i \in 1..N}
    \cup {[cells |-> {<<j, i>> : j \in 1..N}, sense |-> "==", rhs |-> T \div 2] : i \in 1..N}

\* 2. at most one match between every pair of teams
Restriccio2Two(N) ==
    {[cells |-> {<<i, j>>, <<j, i>>}, sense |-> "<=", rhs |-> 2] :
        <<i, j>> \in {c \in Cells(N) : c[1] # c[2]}}

Restriccio2(N) ==
    {[cells |-> {<<i, j>>, <<j, i>>}, sense |-> "<=", rhs |-> 1] :
        <<i, j>> \in {c \in Cells(N) : c[1] # c[2]}}

\* 3. no match between teams of the same country
Restriccio3(eq) ==
    {[cells |-> {<<i, j>>}, sense |-> "==", rhs |-> 0] :
        <<i, j>> \in {c \in Cells(Len(eq)) : c[1] # c[2] /\ eq[c[1]].pais = eq[c[2]].pais}}

\* 4. at most MAX_RIVAL_MATEIX_PAIS matches against teams of one foreign country
Restriccio4AwayOnly(eq) ==
    UNION {
        {[cells |-> {<<i, j>> : j \in equips_per_pais(eq, pais_j) \ {i}},
          sense |-> "<=", rhs |-> MAX_RIVAL_MATEIX_PAIS] :
            pais_j \in Paisos(eq) \ {eq[i].pais}} : i \in 1..Len(eq)}

Restriccio4(eq) ==
    UNION {
        {[cells |-> {<<i, j>> : j \in equips_per_pais(eq, pais_j) \ {i}}
                    \cup {<<j, i>> : j \in equips_per_pais(eq, pais_j) \ {i}},
          sense |-> "<=", rhs |-> MAX_RIVAL_MATEIX_PAIS] :
            pais_j \in Paisos(eq) \ {eq[i].pais}} : i \in 1..Len(eq)}

\* 5. one home and one away match against every pot (the team's own included)
Restriccio5OtherPots(eq, P) ==
    UNION {
        {[cells |-> {<<i, j>> : j \in equips_per_pot(eq, p) \ {i}},
          sense |-> "==", rhs |-> PARTITS_PER_POT] : p \in P \ {eq[i].pot}}
        \cup
        {[cells |-> {<<j, i>> : j \in equips_per_pot(eq, p) \ {i}},
          sense |-> "==", rhs |-> PARTITS_PER_POT] : p \in P \ {eq[i].pot}}
        : i \in 1..Len(eq)}

Restriccio5(eq, P) ==
    UNION {
        {[cells |-> {<<i, j>> : j \in equips_per_pot(eq, p) \ {i}},
          sense |-> "==", rhs |-> PARTITS_PER_POT] : p \in P}
        \cup
        {[cells |-> {<<j, i>> : j \in equips_per_pot(eq, p) \ {i}},
          sense |-> "==", rhs |-> PARTITS_PER_POT] : p \in P}
        : i \in 1..Len(eq)}

\* every constraint the function adds to the model
Model(eq, T, P) ==
    Restriccio1(Len(eq), T) \cup Restriccio2(Len(eq)) \cup Restriccio3(eq)
    \cup Restriccio4(eq) \cup Restriccio5(eq, P)

\* the objective: total distance of the away legs
Objectiu(ds, a) ==
    LET RECURSIVE Total(_)
        Total(cs) == IF cs = {} THEN 0
                     ELSE LET c == CHOOSE c \in cs : TRUE
                          IN  ds[c[1]][c[2]] + Total(cs \ {c})
    IN  Total({c \in DOMAIN a : a[c] = 1})


(***************************************************************************)
(* optimitzar_lliga_champions: model.solve                                 *)
(*                                                                         *)
(* CBC is an external solver.  It is modelled by what it computes: the     *)
(* set of 0/1 assignments that satisfy every constraint, found by          *)
(* deciding the rows of x one after the other and dropping a partial       *)
(* assignment as soon as some constraint can no longer be met.             *)
(***************************************************************************)
\* the comparison a constraint makes between its sum and its right-hand side
Compleix(v, sense, rhs) ==
    CASE sense = "==" -> v = rhs
      [] sense = "<=" -> v <= rhs
      [] sense = ">=" -> v >= rhs

\* a complete assignment satisfies every constraint
Satisfa(cons, a) == \A c \in cons : Compleix(lpSum(c.cells, a), c.sense, c.rhs)

\* a partial assignment can still be completed so that constraint c holds:
\* the undecided variables of c can add anything from 0 to their number
Possible(c, a) ==
    LET dec == lpSum(c.cells, a)
        und == Cardinality(c.cells \ DOMAIN a)
    IN  \E v \in dec..(dec + und) : Compleix(v, c.sense, c.rhs)

RECURSIVE Cerca(_, _, _, _)
\* every complete assignment over N teams that extends a (rows 1..k decided)
\* and satisfies cons
Cerca(cons, N, a, k) ==
    IF k = N
    THEN IF Satisfa(cons, a) THEN {a} ELSE {}
    ELSE LET fila   == k + 1
             \* constraints over variables of this row only: decided by the row
             locals == {c \in cons : c.cells # {} /\ \A cell \in c.cells : cell[1] = fila}
             \* constraints that mention this row or this team's column
             toca   == {c \in cons : \E cell \in c.cells : cell[1] = fila}
             files  == {r \in [1..N -> {0, 1}] :
                          \A c \in locals :
                              Compleix(Cardinality({cell \in c.cells : r[cell[2]] = 1}),
                                       c.sense, c.rhs)}
             seg(r) == [c \in (1..fila) \X (1..N) |-> IF c[1] = fila THEN r[c[2]] ELSE a[c]]
         IN  UNION {Cerca(cons, N, seg(r), fila) :
                        r \in {q \in files : \A c \in toca : Possible(c, seg(q))}}

NoValues == <<>>                      \* pulp.value(x[(i,j)]) is None
Zeros(N) == [c \in Cells(N) |-> 0]

\* The outcomes of model.solve(PULP_CBC_CMD(timeLimit=300, msg=0)): the status
\* PuLP stores in model.status and the values it stores in the variables.
Resoldre(cons, N, ds) ==
    LET sols   == Cerca(cons, N, <<>>, 0)
        valors == {Objectiu(ds, a) : a \in sols}
        minim  == CHOOSE v \in valors : \A w \in valors : v <= w
    IN  \* search finished with a solution: the optimum
        {[status |-> "Optimal", values |-> a] : a \in {b \in sols : Objectiu(ds, b) = minim}}
        \* time limit reached with an incumbent: PuLP reports it as Optimal or
        \* as Not Solved depending on its version
        \cup {[status |-> st, values |-> a] : st \in {"Optimal", "Not Solved"}, a \in sols}
        \* time limit reached with no incumbent
        \cup {[status |-> "Not Solved", values |-> NoValues]}
        \* search finished without any solution: the values CBC leaves are
        \* unspecified (none, or numbers that are not a schedule)
        \cup (IF sols = {}
              THEN {[status |-> "Infeasible", values |-> v] : v \in {NoValues, Zeros(N)}}
              ELSE {})

(***************************************************************************)
(* convertir_variables_a_matriu / mostrar_rivals_taula                     *)
(***************************************************************************)
convertir_variables_a_matriu(vs, N) ==
    [i \in 1..N |-> [j \in 1..N |-> vs[<<i, j>>]]]

mostrar_rivals_taula(m, eq) ==
    [i \in 1..Len(eq) |->
        [visitant |-> {j \in 1..Len(eq) : m[i][j] = 1},
         local    |-> {j \in 1..Len(eq) : m[j][i] = 1}]]

(***************************************************************************)
(* main                                                                    *)
(***************************************************************************)
Llegir ==
    /\ pc = "inici"
    /\ equips' = LlegirDades(fitxer)
    /\ pc' = "llegit"
    /\ UNCHANGED <<fitxer, dists, TOTAL_PARTITS, pots, status, x, matriu, out, crides>>
    /\ UNCHANGED normVars

CrearMatriu ==
    /\ pc = "llegit"
    /\ dists' = crear_matriu_distancies(equips)
    /\ pc' = "distancies"
    /\ UNCHANGED <<fitxer, equips, TOTAL_PARTITS, pots, status, x, matriu, out, crides>>
    /\ UNCHANGED normVars

\* optimitzar_lliga_champions: builds the model, calls the solver, prints
\* the minimum when the status is Optimal, returns (model, x)
Optimitzar ==
    /\ pc = "distancies"
    /\ \E r \in Resoldre(Model(equips, TOTAL_PARTITS, pots), Len(equips), dists) :
          /\ status' = r.status
          /\ x' = r.values
          /\ out' = IF r.status = "Optimal"
                    THEN Append(out, [tipus |-> "distancia",
                                      valor |-> Objectiu(dists, r.values)])
                    ELSE out
    /\ crides' = crides + 1
    /\ pc' = "optimitzat"
    /\ UNCHANGED <<fitxer, equips, dists, TOTAL_PARTITS, pots, matriu>>
    /\ UNCHANGED normVars

\* int(pulp.value(x[(i, j)])) raises TypeError when the value is None
Convertir ==
    /\ pc = "optimitzat"
    /\ IF x = NoValues
       THEN /\ pc' = "error"
            /\ UNCHANGED matriu
       ELSE /\ matriu' = convertir_variables_a_matriu(x, Len(equips))
            /\ pc' = "convertit"
    /\ UNCHANGED <<fitxer, equips, dists, TOTAL_PARTITS, pots, status, x, out, crides>>
    /\ UNCHANGED normVars

Mostrar ==
    /\ pc = "convertit"
    /\ out' = Append(out, [tipus |-> "taula", valor |-> mostrar_rivals_taula(matriu, equips)])
    /\ pc' = "fi"
    /\ UNCHANGED <<fitxer, equips, dists, TOTAL_PARTITS, pots, status, x, matriu, crides>>
    /\ UNCHANGED normVars

(***************************************************************************)
(* normalize_name                                                          *)
(*                                                                         *)
(* A name is a record [nul, str]: nul for a missing value (None / NaN),    *)
(* str the sequence of its characters.  The alphabet has one character of  *)
(* each kind the function treats differently.                              *)
(***************************************************************************)
None   == [nul |-> TRUE, str |-> <<>>]
Str(w) == [nul |-> FALSE, str |-> w]

\* "A": upper-case letter; "E'": upper-case letter with an accent (U+00C9);
\* "'": combining acute accent (U+0301); " ": blank; "TM": trade mark sign
\* (U+2122), whose compatibility decomposition is the two capitals T, M;
\* "..": diaeresis (U+00A8), whose compatibility decomposition is a blank
\* followed by the combining diaeresis (U+0308, written ":").
Alphabet == {"A", "a", "E'", "'", " ", "TM", ".."}

isspace(ch) == ch = " "

combining(ch) == ch \in {"'", ":"}

\* str.casefold, character by character
casefold(ch) ==
    CASE ch = "A"  -> "a"
      [] ch = "E'" -> "e'"
      [] ch = "E"  -> "e"
      [] ch = "T"  -> "t"
      [] ch = "M"  -> "m"
      [] OTHER     -> ch

\* unicodedata.normalize("NFKD", .), character by character
NFKD(ch) ==
    CASE ch = "E'" -> <<"E", "'">>
      [] ch = "e'" -> <<"e", "'">>
      [] ch = "TM" -> <<"T", "M">>
      [] ch = ".." -> <<" ", ":">>
      [] OTHER     -> <<ch>>

RECURSIVE lstrip(_)
lstrip(w) == IF w # <<>> /\ isspace(Head(w)) THEN lstrip(Tail(w)) ELSE w

RECURSIVE rstrip(_)
rstrip(w) == IF w # <<>> /\ isspace(w[Len(w)]) THEN rstrip(SubSeq(w, 1, Len(w) - 1)) ELSE w

strip(w) == rstrip(lstrip(w))

RECURSIVE CasefoldAll(_)
\* w.casefold()
CasefoldAll(w) ==
    IF w = <<>> THEN <<>> ELSE <<casefold(Head(w))>> \o CasefoldAll(Tail(w))

RECURSIVE Decompose(_)
\* unicodedata.normalize("NFKD", w)
Decompose(w) ==
    IF w = <<>> THEN <<>> ELSE NFKD(Head(w)) \o Decompose(Tail(w))

\* "".join(ch for ch in normalize("NFKD", w) if not combining(ch))
TreuAccents(w) == SelectSeq(Decompose(w), LAMBDA ch : ~combining(ch))

RECURSIVE Collapse(_)
\* " ".join(w.split()): on a sequence without leading blanks, every run of
\* blanks becomes one blank and trailing blanks disappear
Collapse(w) ==
    IF w = <<>> THEN <<>>
    ELSE IF isspace(Head(w))
         THEN IF lstrip(w) = <<>> THEN <<>> ELSE <<" ">> \o Collapse(lstrip(w))
         ELSE <<Head(w)>> \o Collapse(Tail(w))

JoinSplit(w) == Collapse(lstrip(w))

normalize_name(v) ==
    IF v.nul
    THEN None
    ELSE Str(JoinSplit(TreuAccents(CasefoldAll(strip(v.str)))))

RECURSIVE Strings(_)
Strings(n) ==
    IF n = 0 THEN {<<>>}
    ELSE Strings(n - 1) \cup {Append(w, ch) : w \in Strings(n - 1), ch \in Alphabet}

(***************************************************************************)
(* Inputs                                                                  *)
(***************************************************************************)
\* team number i is placed at venue i of a grid (latitude 0 or 10)
Fila(pais, pot, i) ==
    [Pais     |-> pais,
     Pot      |-> pot,
     Latitud  |-> 10 * (((i - 1) \div 2) % 2) * MICRO,
     Longitud |-> (10 * ((i - 1) % 2) + 20 * ((i - 1) \div 4)) * MICRO]

Full(pp) == [i \in 1..Len(pp) |-> Fila(pp[i][1], pp[i][2], i)]

\* The country columns of n rows, one for every way of splitting the rows
\* into countries: row 1 has country 1, and a row has either the country of
\* an earlier row or the next unused number.
Paisos_n(n) ==
    {c \in [1..n -> 1..n] :
        /\ c[1] = 1
        /\ \A i \in 2..n : \E k \in 1..(i - 1) : c[i] <= c[k] + 1}

\* every spreadsheet of up to MaxTeams rows over the pots P
Fitxers(P) ==
    UNION {{Full([i \in 1..n |-> <<c[i], q[i]>>]) : c \in Paisos_n(n), q \in [1..n -> P]} :
              n \in 1..MaxTeams}

\* A(pot 1, X), B(pot 1, Y), C(pot 2, X), D(pot 2, Y) at (0,0),(0,10),(10,0),(10,10)
ToyFile == Full(<< <<1, 1>>, <<2, 1>>, <<1, 2>>, <<2, 2>> >>)

\* two pots of three teams, five countries (teams 2 and 4 share one)
SixFile == Full(<< <<1, 1>>, <<2, 1>>, <<3, 1>>, <<2, 2>>, <<4, 2>>, <<5, 2>> >>)

\* two pots of four teams, four teams of country 1 spread over both pots
EightFile == Full(<< <<1, 1>>, <<1, 1>>, <<2, 1>>, <<3, 1>>,
                     <<1, 2>>, <<1, 2>>, <<3, 2>>, <<4, 2>> >>)

NormIdle ==
    /\ npc = "fi"
    /\ s = None
    /\ norm1 = None
    /\ norm2 = None

CalStart(f, T, P) ==
    /\ pc = "inici"
    /\ fitxer = f
    /\ TOTAL_PARTITS = T
    /\ pots = P
    /\ equips = <<>>
    /\ dists = <<>>
    /\ status = "none"
    /\ x = NoValues
    /\ matriu = <<>>
    /\ out = <<>>
    /\ crides = 0

\* Configurations that keep the source's ratio TOTAL_PARTITS = 2 * (number of
\* pots), and the source's own 8 matches / 4 pots.
Init ==
    /\ NormIdle
    /\ \/ \E p \in 1..MaxPots : \E f \in Fitxers(1..p) \cup {ToyFile, SixFile} :
            /\ \A i \in 1..Len(f) : f[i].Pot \in 1..p
            /\ CalStart(f, 2 * p, 1..p)
       \/ \E f \in {ToyFile, SixFile} \cup Fitxers(1..1) : CalStart(f, 8, 1..4)

Next == Llegir \/ CrearMatriu \/ Optimitzar \/ Convertir \/ Mostrar

Spec == Init /\ [][Next]_vars

\* Any even TOTAL_PARTITS up to 2 * MaxHalf with any number of pots up to MaxPots
InitCfg ==
    /\ NormIdle
    /\ \E p \in 1..MaxPots, h \in 1..MaxHalf : \E f \in Fitxers(1..p) :
            CalStart(f, 2 * h, 1..p)

SpecCfg == InitCfg /\ [][Next]_vars

(***************************************************************************)
(* The normalisation driver: the name column is mapped through             *)
(* normalize_name; the second application is the one idempotence is about. *)
(***************************************************************************)
Normalitza ==
    /\ npc = "inici"
    /\ norm1' = normalize_name(s)
    /\ npc' = "un"
    /\ UNCHANGED <<s, norm2>>
    /\ UNCHANGED calVars

Renormalitza ==
    /\ npc = "un"
    /\ norm2' = normalize_name(norm1)
    /\ npc' = "dos"
    /\ UNCHANGED <<s, norm1>>
    /\ UNCHANGED calVars

InitNorm ==
    /\ npc = "inici"
    /\ s \in {None} \cup {Str(w) : w \in Strings(MaxLen)}
    /\ norm1 = None
    /\ norm2 = None
    /\ pc = "fi"
    /\ fitxer = <<>>
    /\ TOTAL_PARTITS = 8
    /\ pots = 1..4
    /\ equips = <<>>
    /\ dists = <<>>
    /\ status = "none"
    /\ x = NoValues
    /\ matriu = <<>>
    /\ out = <<>>
    /\ crides = 0

NextNorm == Normalitza \/ Renormalitza

SpecNorm == InitNorm /\ [][NextNorm]_vars

\* The calendar with the eight-team spreadsheet among the inputs
InitCap ==
    /\ NormIdle
    /\ \E f \in Fitxers(1..2) \cup {SixFile, EightFile} : CalStart(f, 4, 1..2)

SpecCap == InitCap /\ [][Next]_vars

(***************************************************************************)
(* Properties                                                              *)
(***************************************************************************)
N == Len(equips)

\* the variables hold an assignment that satisfies every constraint of the model
Valid ==
    /\ pc \in {"optimitzat", "convertit", "fi"}
    /\ x # NoValues
    /\ Satisfa(Model(equips, TOTAL_PARTITS, pots), x)

Away(i)  == {j \in 1..N : x[<<i, j>>] = 1}
Home(i)  == {j \in 1..N : x[<<j, i>>] = 1}

\* C1: in every assignment that satisfies the model, every team has exactly
\* TOTAL_PARTITS / 2 away legs and exactly TOTAL_PARTITS / 2 home legs
\* (4 and 4 with the source's TOTAL_PARTITS = 8).
C1_Degree ==
    Valid => \A i \in 1..N :
                /\ Cardinality(Away(i)) = TOTAL_PARTITS \div 2
                /\ Cardinality(Home(i)) = TOTAL_PARTITS \div 2
                /\ (TOTAL_PARTITS = 8 => Cardinality(Away(i)) = 4 /\ Cardinality(Home(i)) = 4)

C1_Witness ==
    /\ Valid
    /\ TOTAL_PARTITS = 4
    /\ N = 6
    /\ \A i \in 1..N : Cardinality(Away(i)) = 2 /\ Cardinality(Home(i)) = 2

\* C2: in every assignment that satisfies the model, every team plays exactly
\* one away leg at a team of each pot and hosts exactly one team of each pot,
\* its own pot included and the team itself left out.
C2_PotBalance ==
    Valid => \A i \in 1..N : \A p \in pots :
                /\ Cardinality({j \in Away(i) : j # i /\ equips[j].pot = p}) = 1
                /\ Cardinality({j \in Home(i) : j # i /\ equips[j].pot = p}) = 1

C2_Witness ==
    /\ Valid
    /\ pots = 1..2
    /\ \E i \in 1..N : \E j, k \in Away(i) :
          equips[j].pot = equips[i].pot /\ equips[k].pot # equips[i].pot

\* C3: in every assignment that satisfies the model, two distinct teams meet
\* at most once, and teams of the same country do not meet at all.
C3_Pairing ==
    Valid => \A i, j \in 1..N :
                i # j =>
                    /\ x[<<i, j>>] + x[<<j, i>>] <= 1
                    /\ (equips[i].pais = equips[j].pais => x[<<i, j>>] + x[<<j, i>>] = 0)

C3_Witness ==
    /\ Valid
    /\ \E i, j \in 1..N : i # j /\ equips[i].pais = equips[j].pais
    /\ \E i, j \in 1..N : i # j /\ x[<<i, j>>] = 1 /\ x[<<j, i>>] = 0

LegsAgainst(i, c) ==
    Cardinality({j \in Away(i) : equips[j].pais = c})
    + Cardinality({j \in Home(i) : equips[j].pais = c})

\* C4: in every assignment that satisfies the model, a team plays at most
\* MAX_RIVAL_MATEIX_PAIS = 2 legs, home and away together, against the teams
\* of any one foreign country.
C4_NationalityCap ==
    Valid => \A i \in 1..N : \A c \in Paisos(equips) \ {equips[i].pais} :
                LegsAgainst(i, c) <= 2

C4_Witness ==
    /\ Valid
    /\ \E i \in 1..N : \E c \in Paisos(equips) \ {equips[i].pais} :
          /\ LegsAgainst(i, c) = 2
          /\ Cardinality(equips_per_pais(equips, c)) >= 2

\* C5: in every assignment that satisfies the model, no team plays itself,
\* although x[(i,i)] is a free binary variable of the model.
C5_NoSelfFixture ==
    Valid => \A i \in 1..N : x[<<i, i>>] = 0

C5_Witness ==
    /\ Valid
    /\ pc = "fi"
    /\ \A i \in 1..N : matriu[i][i] = 0 /\ Away(i) # {}

\* C6 (as claimed): the model has a satisfying assignment only when
\* TOTAL_PARTITS = 2 * (number of pots).
C6_FeasibleOnlyIfTwicePots ==
    Valid => TOTAL_PARTITS = 2 * Cardinality(pots)

\* C7 (as claimed): when TOTAL_PARTITS is inconsistent with the number of pots
\* of the registry, the run stops before the solver is called.
C7_RejectedBeforeSolve ==
    (equips # <<>> /\ TOTAL_PARTITS # 2 * Cardinality({equips[i].pot : i \in 1..N}))
        => crides = 0

\* C8 (as claimed): once the solve has ended without a solution (Infeasible,
\* or the time limit with no incumbent), main goes no further:
\* convertir_variables_a_matriu and mostrar_rivals_taula are not reached.
C8_FailureNotRendered ==
    (status = "Infeasible" \/ (status = "Not Solved" /\ x = NoValues))
        => pc \notin {"convertit", "error", "fi"}

IsToy == fitxer = ToyFile /\ TOTAL_PARTITS = 4 /\ pots = 1..2

\* C9 (as claimed): on the four-team toy instance with 2 pots and 4 matches
\* some assignment satisfies the model, and the optimiser returns one of
\* minimum total distance.
C9_ToyOptimum ==
    (IsToy /\ pc = "optimitzat") =>
        /\ Cerca(Model(equips, TOTAL_PARTITS, pots), N, <<>>, 0) # {}
        /\ Valid
        /\ \A a \in Cerca(Model(equips, TOTAL_PARTITS, pots), N, <<>>, 0) :
              Objectiu(dists, x) <= Objectiu(dists, a)

\* C9 (amended): on the four-team toy instance with 2 pots and 4 matches no
\* assignment satisfies the model; the optimiser never reports an optimum
\* and never prints a minimum distance.
C9_ToyInfeasible ==
    (IsToy /\ pc \in {"optimitzat", "convertit", "error", "fi"}) =>
        /\ status \in {"Infeasible", "Not Solved"}
        /\ ~Valid
        /\ \A k \in 1..Len(out) : out[k].tipus # "distancia"

C9_Witness ==
    IsToy /\ pc = "optimitzat" /\ status = "Infeasible" /\ crides = 1

\* C10 (as claimed): normalising a normalised name changes nothing, and a
\* missing name stays missing.
C10_Idempotent ==
    npc = "dos" => /\ norm2 = norm1
                   /\ (s.nul => norm1 = None /\ norm2 = None)

====
